---- MODULE Spec2Model ----
(***************************************************************************)
(* Earnings accrual, balance aggregation and withdrawal gate of the mining *)
(* platform, modelled from src/server/routes.ts, the PostgresStorage class *)
(* of src/server/storage.ts and the drizzle schema (src/unnamed/part_002). *)
(*                                                                         *)
(* Units.  BTC amounts are integers counting 1e-8 BTC ("sat"), the scale   *)
(* of the decimal(20,8) columns.  Time is the wall clock in seconds.       *)
(* An await in the source is a point where other handlers may run, so a    *)
(* handler with several awaits is a sequence of steps.                     *)
(***************************************************************************)
EXTENDS Integers, Sequences, FiniteSets, TLC

\* ----------------------------------------------------------------- bounds
MaxClock == 2          \* seconds of wall-clock time explored
MaxRuns == 2           \* accrual runs in flight at the same time
MaxTx == 1             \* deposit transactions
MaxContracts == 2      \* contracts created by approvals
MaxWithdrawals == 2    \* withdrawal records
MaxInflight == 1       \* withdrawal inserts issued and not yet committed
MaxAmount == 2         \* largest requested withdrawal amount (sat)
MonthSecs == 1         \* length of one contract month on the model's clock
TenTicks == 10         \* the ticks of the ten-tick scenario
RecoverTicks == 4      \* the ticks of the recovery scenario
FaultyTicks == 2       \* its ticks in which storage operations may fail
MaxTickets == 2        \* support tickets
MaxMessages == 2       \* support ticket messages
MaxPosts == 2          \* POST .../messages handlers in flight at the same time

\* ------------------------------------------------------ program constants
SecondsPerDay == 86400
FallbackBtcPrice == 111325
UsdtPriceUsd == 1
ProPlan == 2
UltimatePlan == 6
SatPerBtc == 100000000

AdminId == 1
NoUser == 0
Users == {2, 3}
AllUsers == Users \cup {AdminId}
PlanIds == {ProPlan, UltimatePlan}
NoSuchPlan == 99
Currencies == {"BTC", "USDT"}
Hashes == {"h1", "h2"}
Prices == {45000}
NoPrice == 0
NoTick == -1
Fees == {0}
CryptoAmounts == {1, 2}
BodyAmounts == {0, 7}
TicketStatuses == {"open", "in_progress", "resolved", "closed"}
MessageTexts == {"", "hello"}
PatchStatuses == {"resolved"}
\* getSupportTicket's null
NoTicket == [userId |-> NoUser, status |-> ""]
\* an answer: the route, the HTTP status and message, the rows of the body,
\* and of the request the session's user, the currency and the amount or id
NoResponse == [route |-> "", status |-> 0, message |-> "", rows |-> <<>>, userId |-> 0, currency |-> "", amount |-> 0]

VARIABLES
    clock,        \* wall clock, seconds
    btcPrice,     \* crypto_prices row of BTC (NoPrice: no row)
    transactions, \* transactions table, index = serial id
    contracts,    \* mining_contracts table, index = serial id
    ledger,       \* mining_earnings table in insertion order
    withdrawals,  \* withdrawals table, index = serial id
    wreqs,        \* withdrawal inserts issued by POST /api/withdrawals
    runs,         \* in-flight generateEarningsForAllContracts calls
    response,     \* the last answer sent by a request handler
    supportTickets,         \* support_tickets table, index = serial id
    supportTicketMessages,  \* support_ticket_messages table
    ticketReqs              \* POST .../messages handlers between two awaits

vars == <<clock, btcPrice, transactions, contracts, ledger, withdrawals, wreqs, runs, response,
          supportTickets, supportTicketMessages, ticketReqs>>

\* ---------------------------------------------------------------- helpers
\* SUM(amount) over a sequence of rows
RECURSIVE SumAmount(_)
SumAmount(s) == IF s = <<>> THEN 0 ELSE Head(s).amount + SumAmount(Tail(s))

\* value::numeric(p, s): num/den rounded half away from zero (num, den >= 0)
RoundDiv(num, den) == (2 * num + den) \div (2 * den)

\* SUM(usd_value) over a sequence of rows
RECURSIVE SumUsdValue(_)
SumUsdValue(s) == IF s = <<>> THEN 0 ELSE Head(s).usdValue + SumUsdValue(Tail(s))

\* isAuthenticated: the status it answers (200: next() with req.user set)
authStatus(sessionUser) == IF sessionUser = NoUser THEN 401 ELSE 200

\* req.user.isAdmin
isAdmin_Authenticated(u) == u # NoUser
isAdmin(u) == u = AdminId

\* isAuthenticated followed by the admin test of an admin handler
adminStatus(sessionUser) ==
    IF authStatus(sessionUser) # 200 THEN 401
    ELSE IF ~isAdmin(sessionUser) THEN 403
    ELSE 200

\* mining_plans rows seeded by initializeMiningPlans (dailyEarnings in sat)
dailyEarnings(p) == IF p = ProPlan THEN 2800 ELSE 45000
contractPeriod(p) == 1
planPrice(p) == IF p = ProPlan THEN 50 ELSE 1000
getMiningPlan(p) == IF p \in PlanIds THEN p ELSE NoSuchPlan

\* ---------------------------------------------------------------- storage
\* the rows of mining_earnings WHERE user_id = u
UserLedger_AllUsers(u) == ledger
UserLedger(u) == SelectSeq(ledger, LAMBDA e : e.userId = u)

\* PostgresStorage.getUserTotalEarnings(userId).totalBtc and .totalUsd
getUserTotalEarnings(u) == SumAmount(UserLedger(u))
getUserTotalEarningsUsd(u) == SumUsdValue(UserLedger(u))

\* PostgresStorage.getActiveMiningContracts: ids of the selected rows
IsSelected_IgnoreEndDate(c, now) == c.isActive
IsSelected_StrictEnd(c, now) == c.isActive /\ c.endDate > now
IsSelected(c, now) == c.isActive /\ c.endDate >= now
getActiveMiningContracts(now) ==
    SelectSeq([i \in 1..Len(contracts) |-> i], LAMBDA i : IsSelected(contracts[i], now))

\* generateDailyEarnings: the row handed to createMiningEarning, as stored.
\* amount and usdValue are rounded to the scale of their columns.  tick is
\* not a column: it records which call wrote the row, the start second of
\* the tick or NoTick for the call made by the approve handler.
perSecondEarningsAmount(p) == RoundDiv(dailyEarnings(p), SecondsPerDay)
btcPriceUsd == IF btcPrice = NoPrice THEN FallbackBtcPrice ELSE btcPrice
\* usd_value decimal(10,2), in cents: dailyEarnings/86400 * price * 100 / 1e8
\* (numerator and denominator are both divided by 100 to fit TLC's integers)
usdValueCents(p, price) == RoundDiv((dailyEarnings(p) \div 100) * price, SecondsPerDay * (SatPerBtc \div 10000))
NewEarning_Placeholder(cid, uid, p, price, date, tick) ==
    [contractId |-> 0, userId |-> uid, date |-> date,
     amount |-> perSecondEarningsAmount(p), usdValue |-> usdValueCents(p, price), tick |-> tick]
NewEarning(cid, uid, p, price, date, tick) ==
    [contractId |-> cid, userId |-> uid, date |-> date,
     amount |-> perSecondEarningsAmount(p), usdValue |-> usdValueCents(p, price), tick |-> tick]

\* a call of generateEarningsForAllContracts: where it stands, the second it
\* started in, the fetched contracts still to do, and the price and date
\* that generateDailyEarnings took for the row it is inserting
IdleRun == [pc |-> "idle", start |-> 0, queue |-> <<>>, price |-> NoPrice, date |-> 0]

Init ==
    /\ clock = 0
    /\ btcPrice = NoPrice
    /\ transactions = <<>>
    /\ contracts = <<>>
    /\ ledger = <<>>
    /\ withdrawals = <<>>
    /\ wreqs = <<>>
    /\ runs = [r \in 1..MaxRuns |-> IF r = 1 THEN [IdleRun EXCEPT !.pc = "fetch"] ELSE IdleRun]
    /\ response = NoResponse
    /\ supportTickets = <<>>
    /\ supportTicketMessages = <<>>
    /\ ticketReqs = <<>>

\* ------------------------------------------------------------ accrual job
FreeRun(r) == runs[r].pc = "idle" /\ \A q \in 1..(r - 1) : runs[q].pc # "idle"

\* setInterval callback of startDailyEarningsService: one second has passed
\* and generateEarningsForAllContracts is called again, whether or not the
\* previous call has returned
TimerFireUntil(lastTick, slots) ==
    /\ clock < lastTick
    /\ \E r \in 1..slots :
        /\ FreeRun(r)
        /\ runs' = [runs EXCEPT ![r] = [IdleRun EXCEPT !.pc = "fetch", !.start = clock + 1]]
    /\ clock' = clock + 1
    /\ UNCHANGED <<btcPrice, transactions, contracts, ledger, withdrawals, wreqs, response, supportTickets, supportTicketMessages, ticketReqs>>

TimerFire == TimerFireUntil(MaxClock, MaxRuns)

\* what follows one contract of the loop: the next contract, or the end
NextContract_DropsRest(run) == IdleRun
NextContract(run) ==
    IF Len(run.queue) > 1
    THEN [run EXCEPT !.pc = "plan", !.queue = Tail(run.queue), !.price = NoPrice, !.date = 0]
    ELSE IdleRun

\* await storage.getActiveMiningContracts(); a rejection is caught by the
\* try/catch of generateEarningsForAllContracts, which then returns
RunFetch(r) ==
    /\ runs[r].pc = "fetch"
    /\ \E ok \in BOOLEAN :
        runs' = [runs EXCEPT ![r] =
                    IF ok /\ getActiveMiningContracts(clock) # <<>>
                    THEN [@ EXCEPT !.pc = "plan", !.queue = getActiveMiningContracts(clock)]
                    ELSE IdleRun]
    /\ UNCHANGED <<clock, btcPrice, transactions, contracts, ledger, withdrawals, wreqs, response, supportTickets, supportTicketMessages, ticketReqs>>

\* one contract of the loop up to the call of createMiningEarning:
\* getMiningPlan is awaited (a rejection leaves the loop through the outer
\* catch, a missing plan skips the contract), then generateDailyEarnings
\* reads the price (a rejection is caught and logged there), takes
\* date = new Date() and issues the insert
RunContract(r) ==
    /\ runs[r].pc = "plan"
    /\ \E planOk \in BOOLEAN, priceOk \in BOOLEAN :
        runs' = [runs EXCEPT ![r] =
                    IF ~planOk THEN IdleRun
                    ELSE IF getMiningPlan(contracts[Head(@.queue)].planId) = NoSuchPlan \/ ~priceOk
                         THEN NextContract(@)
                         ELSE [@ EXCEPT !.pc = "insert", !.price = btcPriceUsd, !.date = clock]]
    /\ UNCHANGED <<clock, btcPrice, transactions, contracts, ledger, withdrawals, wreqs, response, supportTickets, supportTicketMessages, ticketReqs>>

\* the insert of createMiningEarning is executed by the database (or fails,
\* which generateDailyEarnings catches and logs)
RunInsert(r) ==
    /\ runs[r].pc = "insert"
    /\ \E ok \in BOOLEAN :
        LET cid == Head(runs[r].queue)
            c == contracts[cid]
        IN  ledger' = IF ok
                      THEN Append(ledger, NewEarning(cid, c.userId, c.planId, runs[r].price, runs[r].date, runs[r].start))
                      ELSE ledger
    /\ runs' = [runs EXCEPT ![r] = NextContract(@)]
    /\ UNCHANGED <<clock, btcPrice, transactions, contracts, withdrawals, wreqs, response, supportTickets, supportTicketMessages, ticketReqs>>

\* fetchCryptoPrices: the BTC row is upserted with the fetched price
FetchCryptoPrices ==
    /\ \E p \in Prices : btcPrice' = p
    /\ btcPrice' # btcPrice
    /\ UNCHANGED <<clock, transactions, contracts, ledger, withdrawals, wreqs, runs, response, supportTickets, supportTicketMessages, ticketReqs>>

\* ------------------------------------------------------- deposit requests
\* POST /api/transactions: the row is built from the parsed body (which has
\* no amount field: bodyAmount is stripped), the session's user and
\* amount: Number(plan.price)
transactionAmount_FromRequest(p, bodyAmount) == bodyAmount
transactionAmount(p, bodyAmount) == planPrice(p)

\* PostgresStorage.createTransaction: the row is inserted with the default
\* status
createTransaction(u, p, cryptoAmount, amount) ==
    [userId |-> u, planId |-> p, amount |-> amount, cryptoAmount |-> cryptoAmount, status |-> "pending"]

\* what POST /api/transactions does to the tables
CreateTransactionRequest(u, p, cryptoAmount, bodyAmount) ==
    /\ Len(transactions) < MaxTx
    /\ IF getMiningPlan(p) = NoSuchPlan
       THEN UNCHANGED transactions
       ELSE transactions' = Append(transactions,
                createTransaction(u, p, cryptoAmount, transactionAmount(p, bodyAmount)))

CreateTransaction(u, p) ==
    /\ CreateTransactionRequest(u, p, 1, 0)
    /\ UNCHANGED <<clock, btcPrice, contracts, ledger, withdrawals, wreqs, runs, response, supportTickets, supportTicketMessages, ticketReqs>>

\* POST /api/transactions with its answer
PostTransaction(u, p, cryptoAmount, bodyAmount) ==
    /\ CreateTransactionRequest(u, p, cryptoAmount, bodyAmount)
    /\ response' = [route |-> "POST /api/transactions", rows |-> <<>>,
                    status |-> IF getMiningPlan(p) = NoSuchPlan THEN 404 ELSE 200,
                    message |-> IF getMiningPlan(p) = NoSuchPlan THEN "Mining plan not found" ELSE "",
                    userId |-> u, currency |-> "", amount |-> p]
    /\ UNCHANGED <<clock, btcPrice, contracts, ledger, withdrawals, wreqs, runs, supportTickets, supportTicketMessages, ticketReqs>>

\* POST /api/admin/transactions/:id/approve: the row is set to approved
\* whatever its status was, a contract is created for its plan and
\* generateDailyEarnings is called for the new contract; earningOk is
\* whether the price read and the insert of that call succeed
ApproveTransactionRequest(actor, id, earningOk) ==
    IF ~isAdmin(actor)
       THEN UNCHANGED <<transactions, contracts, ledger>>
       ELSE IF id \notin DOMAIN transactions
       THEN UNCHANGED <<transactions, contracts, ledger>>
       ELSE LET t == transactions[id]
                cid == Len(contracts) + 1
            IN  /\ Len(contracts) < MaxContracts
                /\ transactions' = [transactions EXCEPT ![id].status = "approved"]
                /\ IF getMiningPlan(t.planId) = NoSuchPlan
                   THEN UNCHANGED <<contracts, ledger>>
                   ELSE /\ contracts' = Append(contracts,
                                [userId |-> t.userId, planId |-> t.planId, transactionId |-> id,
                                 startDate |-> clock,
                                 endDate |-> clock + contractPeriod(t.planId) * MonthSecs,
                                 isActive |-> TRUE])
                        /\ ledger' = IF earningOk
                                     THEN Append(ledger, NewEarning(cid, t.userId, t.planId, btcPriceUsd, clock, NoTick))
                                     ELSE ledger

ApproveTransaction(actor, id, earningOk) ==
    /\ ApproveTransactionRequest(actor, id, earningOk)
    /\ UNCHANGED <<clock, btcPrice, withdrawals, wreqs, runs, response, supportTickets, supportTicketMessages, ticketReqs>>

\* the answer of an admin handler on the row with this id
adminAnswer(route, actor, id, table) ==
    [route |-> route, rows |-> <<>>,
     status |-> IF adminStatus(actor) # 200 THEN adminStatus(actor)
                ELSE IF id \notin DOMAIN table THEN 404 ELSE 200,
     message |-> IF adminStatus(actor) = 401 THEN "Not authenticated"
                 ELSE IF adminStatus(actor) = 403 THEN "Admin access required"
                 ELSE IF id \notin DOMAIN table THEN "Transaction not found" ELSE "",
     userId |-> actor, currency |-> "", amount |-> id]

\* POST /api/admin/transactions/:id/approve with its answer
PostApprove(actor, id, earningOk) ==
    /\ ApproveTransactionRequest(actor, id, earningOk)
    /\ response' = adminAnswer("POST /api/admin/transactions/:id/approve", actor, id, transactions)
    /\ UNCHANGED <<clock, btcPrice, withdrawals, wreqs, runs, supportTickets, supportTicketMessages, ticketReqs>>

\* POST /api/admin/transactions/:id/reject
RejectTransactionRequest(actor, id) ==
    IF ~isAdmin(actor)
    THEN UNCHANGED transactions
    ELSE IF id \notin DOMAIN transactions
    THEN UNCHANGED transactions
    ELSE transactions' = [transactions EXCEPT ![id].status = "rejected"]

RejectTransaction(actor, id) ==
    /\ RejectTransactionRequest(actor, id)
    /\ UNCHANGED <<clock, btcPrice, contracts, ledger, withdrawals, wreqs, runs, response, supportTickets, supportTicketMessages, ticketReqs>>

\* POST /api/admin/transactions/:id/reject with its answer
PostReject(actor, id) ==
    /\ RejectTransactionRequest(actor, id)
    /\ response' = adminAnswer("POST /api/admin/transactions/:id/reject", actor, id, transactions)
    /\ UNCHANGED <<clock, btcPrice, contracts, ledger, withdrawals, wreqs, runs, supportTickets, supportTicketMessages, ticketReqs>>

\* ------------------------------------------------------------ withdrawals
\* createWithdrawalSchema: amount is z.number().positive()
ValidWithdrawal(amount) == amount > 0

\* the gate of POST /api/withdrawals
InsufficientBalance_OffByOne(u, amount) == amount >= getUserTotalEarnings(u)
InsufficientBalance_Inverted(u, amount) == amount < getUserTotalEarnings(u)
InsufficientBalance(u, amount) == amount > getUserTotalEarnings(u)

\* POST /api/withdrawals up to the call of createWithdrawal: the body is
\* parsed, the balance is read (readOk: the query succeeds) and compared,
\* and the insert is issued
RequestWithdrawal(u, currency, amount, readOk) ==
    /\ Len(wreqs) < MaxInflight
    /\ Len(withdrawals) + Len(wreqs) < MaxWithdrawals
    /\ IF ~ValidWithdrawal(amount)
       THEN /\ response' = [route |-> "POST /api/withdrawals", rows |-> <<>>, status |-> 400, message |-> "Invalid withdrawal data", userId |-> u, currency |-> currency, amount |-> amount]
            /\ UNCHANGED wreqs
       ELSE IF ~readOk
       THEN /\ response' = [route |-> "POST /api/withdrawals", rows |-> <<>>, status |-> 500, message |-> "Failed to create withdrawal", userId |-> u, currency |-> currency, amount |-> amount]
            /\ UNCHANGED wreqs
       ELSE IF InsufficientBalance(u, amount)
       THEN /\ response' = [route |-> "POST /api/withdrawals", rows |-> <<>>, status |-> 400, message |-> "Insufficient balance", userId |-> u, currency |-> currency, amount |-> amount]
            /\ UNCHANGED wreqs
       ELSE /\ wreqs' = Append(wreqs, [userId |-> u, currency |-> currency, amount |-> amount])
            /\ UNCHANGED response
    /\ UNCHANGED <<clock, btcPrice, transactions, contracts, ledger, withdrawals, runs, supportTickets, supportTicketMessages, ticketReqs>>

\* PostgresStorage.createWithdrawal: the row is inserted with the default
\* status
createWithdrawal(w) ==
    [userId |-> w.userId, currency |-> w.currency, amount |-> w.amount,
     status |-> "pending", transactionHash |-> "", networkFee |-> 0, processedAt |-> NoTick]

\* the insert issued by POST /api/withdrawals is executed and the handler
\* answers with the row, or the insert fails and the handler answers 500
InsertWithdrawal(k, ok) ==
    /\ k \in DOMAIN wreqs
    /\ withdrawals' = IF ok THEN Append(withdrawals, createWithdrawal(wreqs[k])) ELSE withdrawals
    /\ wreqs' = SubSeq(wreqs, 1, k - 1) \o SubSeq(wreqs, k + 1, Len(wreqs))
    /\ response' = [route |-> "POST /api/withdrawals", rows |-> <<>>, status |-> IF ok THEN 200 ELSE 500,
                    message |-> IF ok THEN "" ELSE "Failed to create withdrawal",
                    userId |-> wreqs[k].userId, currency |-> wreqs[k].currency, amount |-> wreqs[k].amount]
    /\ UNCHANGED <<clock, btcPrice, transactions, contracts, ledger, runs, supportTickets, supportTicketMessages, ticketReqs>>

\* PostgresStorage.updateWithdrawal with the fields the admin handler sets
updateWithdrawal(w, hash, fee, now) ==
    [w EXCEPT !.status = "completed", !.transactionHash = hash, !.networkFee = fee, !.processedAt = now]

\* POST /api/admin/withdrawals/:id/process
ProcessWithdrawalRequest(actor, id, hash, fee) ==
    IF ~isAdmin(actor)
    THEN UNCHANGED withdrawals
    ELSE withdrawals' = IF id \in DOMAIN withdrawals
                        THEN [withdrawals EXCEPT ![id] = updateWithdrawal(@, hash, fee, clock)]
                        ELSE withdrawals

ProcessWithdrawal(actor, id, hash, fee) ==
    /\ ProcessWithdrawalRequest(actor, id, hash, fee)
    /\ UNCHANGED <<clock, btcPrice, transactions, contracts, ledger, wreqs, runs, response, supportTickets, supportTicketMessages, ticketReqs>>

\* POST /api/admin/withdrawals/:id/process with its answer: the updated row,
\* or null with status 200 when no row has the id
PostProcess(actor, id, hash, fee) ==
    /\ ProcessWithdrawalRequest(actor, id, hash, fee)
    /\ response' = [adminAnswer("POST /api/admin/withdrawals/:id/process", actor, id, withdrawals)
                        EXCEPT !.status = IF @ = 404 THEN 200 ELSE @,
                               !.message = IF @ = "Transaction not found" THEN "" ELSE @]
    /\ UNCHANGED <<clock, btcPrice, transactions, contracts, ledger, wreqs, runs, supportTickets, supportTicketMessages, ticketReqs>>

\* the accrual job, the price feed and the deposit requests that create
\* contracts: none of them reads or writes a withdrawal
Next ==
    \/ TimerFire
    \/ \E r \in 1..MaxRuns : RunFetch(r)
    \/ \E r \in 1..MaxRuns : RunContract(r)
    \/ \E r \in 1..MaxRuns : RunInsert(r)
    \/ FetchCryptoPrices
    \/ \E u \in Users, p \in PlanIds \cup {NoSuchPlan} : CreateTransaction(u, p)
    \/ \E a \in AllUsers, id \in 1..MaxTx, ok \in BOOLEAN : ApproveTransaction(a, id, ok)
    \/ \E a \in AllUsers, id \in 1..MaxTx : RejectTransaction(a, id)

Spec == Init /\ [][Next]_vars

\* The withdrawal handlers read the ledger and the clock and write only
\* withdrawals.  They are explored together with the accrual job from the
\* state in which user 2's deposit for the Ultimate plan has just been
\* approved (CreateTransaction(2, UltimatePlan), then ApproveTransaction).
InitFunded ==
    /\ clock = 0
    /\ btcPrice = NoPrice
    /\ transactions = <<[createTransaction(2, UltimatePlan, 1, planPrice(UltimatePlan)) EXCEPT !.status = "approved"]>>
    /\ contracts = <<[userId |-> 2, planId |-> UltimatePlan, transactionId |-> 1,
                      startDate |-> 0, endDate |-> contractPeriod(UltimatePlan) * MonthSecs,
                      isActive |-> TRUE]>>
    /\ ledger = <<NewEarning(1, 2, UltimatePlan, btcPriceUsd, 0, NoTick)>>
    /\ withdrawals = <<>>
    /\ wreqs = <<>>
    /\ runs = [r \in 1..MaxRuns |-> IF r = 1 THEN [IdleRun EXCEPT !.pc = "fetch"] ELSE IdleRun]
    /\ response = NoResponse
    /\ supportTickets = <<>>
    /\ supportTicketMessages = <<>>
    /\ ticketReqs = <<>>

NextWithdraw ==
    \/ TimerFire
    \/ \E r \in 1..MaxRuns : RunFetch(r)
    \/ \E r \in 1..MaxRuns : RunContract(r)
    \/ \E r \in 1..MaxRuns : RunInsert(r)
    \/ \E u \in Users, c \in Currencies, amt \in 0..MaxAmount, ok \in BOOLEAN : RequestWithdrawal(u, c, amt, ok)
    \/ \E k \in 1..MaxInflight, ok \in BOOLEAN : InsertWithdrawal(k, ok)
    \/ \E a \in AllUsers, id \in 1..(MaxWithdrawals + 1), h \in Hashes, fee \in Fees : ProcessWithdrawal(a, id, h, fee)

SpecWithdraw == InitFunded /\ [][NextWithdraw]_vars
\* The ten-tick scenario: user 2 holds one contract of the Pro plan
\* (dailyEarnings 0.00002800), approved at second 0 after the start-up run
\* has returned, the ledger is empty and the contract outlasts the ticks.
InitTenTicks ==
    /\ clock = 0
    /\ btcPrice = NoPrice
    /\ transactions = <<[createTransaction(2, ProPlan, 1, planPrice(ProPlan)) EXCEPT !.status = "approved"]>>
    /\ contracts = <<[userId |-> 2, planId |-> ProPlan, transactionId |-> 1,
                      startDate |-> 0, endDate |-> TenTicks + 1, isActive |-> TRUE]>>
    /\ ledger = <<>>
    /\ withdrawals = <<>>
    /\ wreqs = <<>>
    /\ runs = [r \in 1..MaxRuns |-> IdleRun]
    /\ response = NoResponse
    /\ supportTickets = <<>>
    /\ supportTicketMessages = <<>>
    /\ ticketReqs = <<>>

\* the ticks of the scenario follow one another: each fires when the
\* previous call has returned
TenTickTimer == TimerFireUntil(TenTicks, 1)

NextTenTicks ==
    \/ TenTickTimer
    \/ RunFetch(1)
    \/ RunContract(1)
    \/ RunInsert(1)

SpecTenTicks == InitTenTicks /\ [][NextTenTicks]_vars

\* The accrual job alone, from the state of InitFunded, with the scheduling
\* of the runtime: the interval timer fires every second, and an awaited
\* storage call of a run in flight settles.
\* the interval goes on after the last second the clock counts: the clock
\* then stands for every later second
TimerFireOn ==
    /\ clock = MaxClock
    /\ \E r \in 1..MaxRuns :
        /\ FreeRun(r)
        /\ runs' = [runs EXCEPT ![r] = [IdleRun EXCEPT !.pc = "fetch", !.start = clock]]
    /\ UNCHANGED <<clock, btcPrice, transactions, contracts, ledger, withdrawals, wreqs, response, supportTickets, supportTicketMessages, ticketReqs>>

NextAccrual ==
    \/ TimerFire
    \/ TimerFireOn
    \/ \E r \in 1..MaxRuns : RunFetch(r)
    \/ \E r \in 1..MaxRuns : RunContract(r)
    \/ \E r \in 1..MaxRuns : RunInsert(r)

SpecAccrual ==
    /\ InitFunded
    /\ [][NextAccrual]_vars
    /\ WF_vars(TimerFire)
    /\ WF_vars(TimerFireOn)
    /\ \A r \in 1..MaxRuns : WF_vars(RunFetch(r)) /\ WF_vars(RunContract(r)) /\ WF_vars(RunInsert(r))

\* The request handlers with their answers, without the accrual job: the
\* start-up run has returned and the timer is left out.
InitAdmin ==
    /\ clock = 0
    /\ btcPrice = NoPrice
    /\ transactions = <<>>
    /\ contracts = <<>>
    /\ ledger = <<>>
    /\ withdrawals = <<>>
    /\ wreqs = <<>>
    /\ runs = [r \in 1..MaxRuns |-> IdleRun]
    /\ response = NoResponse
    /\ supportTickets = <<>>
    /\ supportTicketMessages = <<>>
    /\ ticketReqs = <<>>

NextAdmin ==
    \/ \E u \in Users, p \in PlanIds \cup {NoSuchPlan}, ca \in CryptoAmounts, ba \in BodyAmounts :
            PostTransaction(u, p, ca, ba)
    \/ \E a \in AllUsers \cup {NoUser}, id \in 1..(MaxTx + 1), ok \in BOOLEAN : PostApprove(a, id, ok)
    \/ \E a \in AllUsers \cup {NoUser}, id \in 1..(MaxTx + 1) : PostReject(a, id)
    \/ \E u \in Users, c \in Currencies, amt \in 0..MaxAmount, ok \in BOOLEAN : RequestWithdrawal(u, c, amt, ok)
    \/ \E k \in 1..MaxInflight, ok \in BOOLEAN : InsertWithdrawal(k, ok)
    \/ \E a \in AllUsers \cup {NoUser}, id \in 1..(MaxWithdrawals + 1), h \in Hashes, fee \in Fees :
            PostProcess(a, id, h, fee)

SpecAdmin == InitAdmin /\ [][NextAdmin]_vars

\* The recovery scenario: the deposits of user 2 (Ultimate plan) and user 3
\* (Pro plan) were approved at second 0 after the start-up run had
\* returned, and both contracts outlast the scenario.  Storage calls may
\* fail in the first FaultyTicks ticks and succeed from then on.
InitRecover ==
    /\ clock = 0
    /\ btcPrice = NoPrice
    /\ transactions = <<[createTransaction(2, UltimatePlan, 1, planPrice(UltimatePlan)) EXCEPT !.status = "approved"],
                        [createTransaction(3, ProPlan, 1, planPrice(ProPlan)) EXCEPT !.status = "approved"]>>
    /\ contracts = <<[userId |-> 2, planId |-> UltimatePlan, transactionId |-> 1,
                      startDate |-> 0, endDate |-> RecoverTicks + 1, isActive |-> TRUE],
                     [userId |-> 3, planId |-> ProPlan, transactionId |-> 2,
                      startDate |-> 0, endDate |-> RecoverTicks + 1, isActive |-> TRUE]>>
    /\ ledger = <<NewEarning(1, 2, UltimatePlan, btcPriceUsd, 0, NoTick),
                  NewEarning(2, 3, ProPlan, btcPriceUsd, 0, NoTick)>>
    /\ withdrawals = <<>>
    /\ wreqs = <<>>
    /\ runs = [r \in 1..MaxRuns |-> IdleRun]
    /\ response = NoResponse
    /\ supportTickets = <<>>
    /\ supportTicketMessages = <<>>
    /\ ticketReqs = <<>>

RecoverTimer == TimerFireUntil(RecoverTicks, MaxRuns)

\* the step of run r in which no awaited storage call rejects: the fetch
\* returns the selected contracts, the plan and the price are read and the
\* insert is issued, the insert is executed
OperationsSucceed(r) ==
    /\ runs[r].pc = "fetch" =>
            \/ getActiveMiningContracts(clock) = <<>>
            \/ runs'[r].pc = "plan" /\ runs'[r].queue = getActiveMiningContracts(clock)
    /\ runs[r].pc = "plan" => runs'[r].pc = "insert"
    /\ runs[r].pc = "insert" => ledger' # ledger

SucceedsAfterFaultyTicks(r) == runs[r].start > FaultyTicks => OperationsSucceed(r)

NextRecover ==
    \/ RecoverTimer
    \/ \E r \in 1..MaxRuns : RunFetch(r) /\ SucceedsAfterFaultyTicks(r)
    \/ \E r \in 1..MaxRuns : RunContract(r) /\ SucceedsAfterFaultyTicks(r)
    \/ \E r \in 1..MaxRuns : RunInsert(r) /\ SucceedsAfterFaultyTicks(r)

SpecRecover == InitRecover /\ [][NextRecover]_vars

\* --------------------------------------------------------- support tickets
\* The storage methods of the support tickets are called by routes.ts and
\* are not part of storage.ts; they are a lookup by id, an insert and an
\* update by id of the tables of the schema, like the methods next to them.
accountVars == <<clock, btcPrice, transactions, contracts, ledger, withdrawals, wreqs, runs>>

IdlePost == [pc |-> "idle", userId |-> NoUser, ticketId |-> 0, message |-> "", status |-> ""]

getSupportTicket(id) == IF id \in DOMAIN supportTickets THEN supportTickets[id] ELSE NoTicket
getTicketMessages(id) == SelectSeq(supportTicketMessages, LAMBDA m : m.ticketId = id)
createSupportTicket(u) == [userId |-> u, status |-> "open"]
createTicketMessage(id, u, text, fromAdmin) ==
    [ticketId |-> id, userId |-> u, message |-> text, isFromAdmin |-> fromAdmin]
updateSupportTicket(id, status) ==
    IF id \in DOMAIN supportTickets THEN [supportTickets EXCEPT ![id].status = status] ELSE supportTickets

\* createTicketMessageSchema.parse: message is z.string().min(1)
validMessage(text) == text # ""

\* !(!ticket || (ticket.userId !== userId && !req.user.isAdmin))
ticketFound_AnyUser(ticket, u) == ticket # NoTicket
ticketFound(ticket, u) == ticket # NoTicket /\ ~(ticket.userId # u /\ ~isAdmin(u))

\* ticket.status === 'resolved' && !req.user.isAdmin
reopens_AnyAuthor(status, u) == status = "resolved"
reopens(status, u) == status = "resolved" /\ ~isAdmin(u)

\* req.user as the isAdmin middleware of the admin support-ticket routes
\* reads it: their chain is [isAdmin, handler], isAuthenticated is the only
\* code that sets req.user and it is not in the chain
reqUserOfAdminTicketRoutes(sessionUser) == NoUser

\* the isAdmin middleware: 403 unless req.user?.isAdmin (200: next())
isAdminMiddleware(reqUser) == IF ~isAdmin(reqUser) THEN 403 ELSE 200

ticketAnswer(route, status, message, rows, actor, id) ==
    [route |-> route, status |-> status, message |-> message, rows |-> rows,
     userId |-> actor, currency |-> "", amount |-> id]

\* POST /api/support-tickets (a body that passes createSupportTicketSchema)
PostSupportTicket(actor) ==
    /\ Len(supportTickets) < MaxTickets
    /\ IF authStatus(actor) # 200
       THEN /\ response' = ticketAnswer("POST /api/support-tickets", 401, "Not authenticated", <<>>, actor, 0)
            /\ UNCHANGED supportTickets
       ELSE /\ supportTickets' = Append(supportTickets, createSupportTicket(actor))
            /\ response' = ticketAnswer("POST /api/support-tickets", 201, "",
                                        <<createSupportTicket(actor)>>, actor, Len(supportTickets) + 1)
    /\ UNCHANGED <<supportTicketMessages, ticketReqs>>
    /\ UNCHANGED accountVars

\* GET /api/support-tickets/:ticketId/messages.  The owner of a ticket never
\* changes and no ticket is deleted, so the test on the row read before the
\* second await has the same outcome at the time the messages are read.
GetTicketMessages(actor, id) ==
    /\ response' =
          IF authStatus(actor) # 200
          THEN ticketAnswer("GET /api/support-tickets/:ticketId/messages", 401, "Not authenticated", <<>>, actor, id)
          ELSE IF ~ticketFound(getSupportTicket(id), actor)
          THEN ticketAnswer("GET /api/support-tickets/:ticketId/messages", 404, "Ticket not found", <<>>, actor, id)
          ELSE ticketAnswer("GET /api/support-tickets/:ticketId/messages", 200, "", getTicketMessages(id), actor, id)
    /\ UNCHANGED <<supportTickets, supportTicketMessages, ticketReqs>>
    /\ UNCHANGED accountVars

\* POST /api/support-tickets/:ticketId/messages up to its second await: the
\* body is parsed, then the ticket is read and tested (the handler takes
\* the first free place of ticketReqs)
PostMessageStart(k, actor, id, text) ==
    /\ ticketReqs[k].pc = "idle"
    /\ \A j \in 1..(k - 1) : ticketReqs[j].pc # "idle"
    /\ IF authStatus(actor) # 200
       THEN /\ response' = ticketAnswer("POST /api/support-tickets/:ticketId/messages", 401,
                                        "Not authenticated", <<>>, actor, id)
            /\ UNCHANGED ticketReqs
       ELSE IF ~validMessage(text)
       THEN /\ response' = ticketAnswer("POST /api/support-tickets/:ticketId/messages", 500,
                                        "Failed to create ticket message", <<>>, actor, id)
            /\ UNCHANGED ticketReqs
       ELSE IF ~ticketFound(getSupportTicket(id), actor)
       THEN /\ response' = ticketAnswer("POST /api/support-tickets/:ticketId/messages", 404,
                                        "Ticket not found", <<>>, actor, id)
            /\ UNCHANGED ticketReqs
       ELSE /\ ticketReqs' = [ticketReqs EXCEPT ![k] =
                                 [pc |-> "insert", userId |-> actor, ticketId |-> id, message |-> text,
                                  status |-> getSupportTicket(id).status]]
            /\ UNCHANGED response
    /\ UNCHANGED <<supportTickets, supportTicketMessages>>
    /\ UNCHANGED accountVars

\* ... await storage.createTicketMessage
PostMessageInsert(k) ==
    /\ ticketReqs[k].pc = "insert"
    /\ Len(supportTicketMessages) < MaxMessages
    /\ supportTicketMessages' =
          Append(supportTicketMessages,
                 createTicketMessage(ticketReqs[k].ticketId, ticketReqs[k].userId,
                                     ticketReqs[k].message, isAdmin(ticketReqs[k].userId)))
    /\ ticketReqs' = [ticketReqs EXCEPT ![k].pc = "update"]
    /\ UNCHANGED <<supportTickets, response>>
    /\ UNCHANGED accountVars

\* ... the status update on the status read at the start, and the 201
PostMessageFinish(k) ==
    /\ ticketReqs[k].pc = "update"
    /\ supportTickets' =
          IF reopens(ticketReqs[k].status, ticketReqs[k].userId)
          THEN updateSupportTicket(ticketReqs[k].ticketId, "open")
          ELSE supportTickets
    /\ response' = ticketAnswer("POST /api/support-tickets/:ticketId/messages", 201, "",
                                <<createTicketMessage(ticketReqs[k].ticketId, ticketReqs[k].userId,
                                                      ticketReqs[k].message, isAdmin(ticketReqs[k].userId))>>,
                                ticketReqs[k].userId, ticketReqs[k].ticketId)
    /\ ticketReqs' = [ticketReqs EXCEPT ![k] = IdlePost]
    /\ UNCHANGED supportTicketMessages
    /\ UNCHANGED accountVars

\* GET /api/admin/support-tickets
GetAdminSupportTickets(actor) ==
    /\ response' =
          IF isAdminMiddleware(reqUserOfAdminTicketRoutes(actor)) # 200
          THEN ticketAnswer("GET /api/admin/support-tickets", 403, "Admin access required", <<>>, actor, 0)
          ELSE ticketAnswer("GET /api/admin/support-tickets", 200, "", supportTickets, actor, 0)
    /\ UNCHANGED <<supportTickets, supportTicketMessages, ticketReqs>>
    /\ UNCHANGED accountVars

\* PATCH /api/admin/support-tickets/:ticketId with a status in the body
PatchAdminSupportTicket(actor, id, status) ==
    /\ IF isAdminMiddleware(reqUserOfAdminTicketRoutes(actor)) # 200
       THEN /\ response' = ticketAnswer("PATCH /api/admin/support-tickets/:ticketId", 403,
                                        "Admin access required", <<>>, actor, id)
            /\ UNCHANGED supportTickets
       ELSE /\ supportTickets' = updateSupportTicket(id, status)
            /\ response' = ticketAnswer("PATCH /api/admin/support-tickets/:ticketId", 200, "",
                                        <<getSupportTicket(id)>>, actor, id)
    /\ UNCHANGED <<supportTicketMessages, ticketReqs>>
    /\ UNCHANGED accountVars

\* The support-ticket handlers alone.  The database holds one ticket of
\* user 2 in any status of ticket_status when the server starts: the
\* statuses other than open are not written by any request this server
\* accepts, they are rows of the database as the schema admits them.
InitTickets ==
    /\ clock = 0
    /\ btcPrice = NoPrice
    /\ transactions = <<>>
    /\ contracts = <<>>
    /\ ledger = <<>>
    /\ withdrawals = <<>>
    /\ wreqs = <<>>
    /\ runs = [r \in 1..MaxRuns |-> IdleRun]
    /\ response = NoResponse
    /\ \E s \in TicketStatuses : supportTickets = <<[userId |-> 2, status |-> s]>>
    /\ supportTicketMessages = <<>>
    /\ ticketReqs = [k \in 1..MaxPosts |-> IdlePost]

NextTickets ==
    \/ \E a \in AllUsers \cup {NoUser} : PostSupportTicket(a)
    \/ \E a \in AllUsers, id \in 1..(MaxTickets + 1) : GetTicketMessages(a, id)
    \/ \E k \in 1..MaxPosts, a \in AllUsers, id \in 1..(MaxTickets + 1), text \in MessageTexts :
            PostMessageStart(k, a, id, text)
    \/ \E k \in 1..MaxPosts : PostMessageInsert(k)
    \/ \E k \in 1..MaxPosts : PostMessageFinish(k)
    \/ \E a \in {AdminId, NoUser} : GetAdminSupportTickets(a)
    \/ \E a \in {AdminId, 3}, id \in 1..MaxTickets, s \in PatchStatuses : PatchAdminSupportTicket(a, id, s)

SpecTickets == InitTickets /\ [][NextTickets]_vars

\* ------------------------------------------------------------- properties
CompletedWithdrawals(u) == SelectSeq(withdrawals, LAMBDA w : w.userId = u /\ w.status = "completed")
AdmittedWithdrawals(u) == SelectSeq(withdrawals, LAMBDA w : w.userId = u /\ w.status # "rejected")
EntriesOf(c) == {i \in DOMAIN ledger : ledger[i].contractId = c}
RunsInProgress == {r \in 1..MaxRuns : runs[r].pc # "idle"}
\* the tick that started in second t (t >= 1) has returned
TickReturned(t) == clock >= t /\ \A r \in RunsInProgress : runs[r].start # t

\* C1: the balance the gate compares against is, for every user, the sum of
\* the user's ledger amounts minus the sum of the user's completed
\* withdrawal amounts.
C1_BalanceNetsCompleted ==
    \A u \in Users :
        getUserTotalEarnings(u) = SumAmount(UserLedger(u)) - SumAmount(CompletedWithdrawals(u))

\* C2: a withdrawal request is answered "Insufficient balance" only when its
\* amount exceeds the user's balance, and then nothing but the answer
\* changes; an insert is issued only for an amount within the balance, and
\* a new withdrawal row is exactly one row, the issued request, in status
\* pending.
C2_WithdrawalAdmission ==
    [][ /\ (response' # response /\ response'.message = "Insufficient balance") =>
            /\ response'.status = 400
            /\ response'.amount > getUserTotalEarnings(response'.userId)
            /\ UNCHANGED <<clock, btcPrice, transactions, contracts, ledger, withdrawals, wreqs, runs>>
        /\ Len(wreqs') > Len(wreqs) =>
            /\ wreqs'[Len(wreqs')].amount <= getUserTotalEarnings(wreqs'[Len(wreqs')].userId)
            /\ UNCHANGED <<withdrawals, ledger>>
        /\ withdrawals' # withdrawals /\ Len(withdrawals') >= Len(withdrawals) /\ Len(withdrawals') # Len(withdrawals) =>
            /\ Len(withdrawals') = Len(withdrawals) + 1
            /\ SubSeq(withdrawals', 1, Len(withdrawals)) = withdrawals
            /\ withdrawals'[Len(withdrawals')].status = "pending"
            /\ \E k \in DOMAIN wreqs :
                /\ withdrawals'[Len(withdrawals')].userId = wreqs[k].userId
                /\ withdrawals'[Len(withdrawals')].amount = wreqs[k].amount
                /\ withdrawals'[Len(withdrawals')].currency = wreqs[k].currency
                /\ Len(wreqs') = Len(wreqs) - 1
        /\ Len(withdrawals') >= Len(withdrawals)
      ]_vars

\* a request above a non-zero balance has been refused while an admitted
\* request of the same user is stored as pending
C2_Witness ==
    /\ response.message = "Insufficient balance"
    /\ getUserTotalEarnings(response.userId) > 0
    /\ response.amount > getUserTotalEarnings(response.userId)
    /\ \E i \in DOMAIN withdrawals :
        withdrawals[i].userId = response.userId /\ withdrawals[i].status = "pending"

\* C3: for every user the amounts of the withdrawals that are not rejected
\* never add up to more than the user's ledger.
C3_NoDoubleWithdrawal ==
    \A u \in Users : SumAmount(AdmittedWithdrawals(u)) <= SumAmount(UserLedger(u))

\* C4: completing a pending withdrawal of amount A lowers the balance of its
\* user by exactly A, and a repeated completion request changes neither the
\* balance nor the withdrawal row.
C4_CompletionDebitsOnce ==
    [][ \A i \in DOMAIN withdrawals :
            /\ (withdrawals[i].status = "pending" /\ withdrawals'[i].status = "completed") =>
                    getUserTotalEarnings(withdrawals[i].userId)'
                        = getUserTotalEarnings(withdrawals[i].userId) - withdrawals[i].amount
            /\ (withdrawals[i].status = "completed" /\ ledger' = ledger) =>
                    /\ withdrawals'[i] = withdrawals[i]
                    /\ getUserTotalEarnings(withdrawals[i].userId)' = getUserTotalEarnings(withdrawals[i].userId)
      ]_vars

\* C5: a contract has at most one ledger entry for each one-second bucket.
C5_NoDoubleCredit ==
    \A c \in DOMAIN contracts : \A t \in 0..clock :
        Cardinality({i \in EntriesOf(c) : ledger[i].date = t}) <= 1

\* C6: an entry written by a tick belongs to a contract that was active and
\* not past its endDate when that tick started, so a tick that starts after
\* a contract's deactivation or endDate writes nothing for it.
C6_DeactivationStopsAccrual ==
    \A i \in DOMAIN ledger :
        ledger[i].tick # NoTick =>
            /\ contracts[ledger[i].contractId].isActive
            /\ contracts[ledger[i].contractId].endDate >= ledger[i].tick

\* a tick that started after a contract's endDate has fetched its set, the
\* contract is not in it, and the tick is at work on another contract
C6_Witness ==
    \E r \in 1..MaxRuns, c \in DOMAIN contracts :
        /\ runs[r].pc \in {"plan", "insert"}
        /\ contracts[c].endDate < runs[r].start
        /\ \A k \in DOMAIN runs[r].queue : runs[r].queue[k] # c
        /\ EntriesOf(c) # {}

\* C7: no entry is dated after its contract's endDate (or after its
\* deactivation), also when the endDate passes between a tick's fetch and
\* its write.
C7_NoInFlightCredit ==
    \A i \in DOMAIN ledger :
        /\ contracts[ledger[i].contractId].isActive
        /\ ledger[i].date <= contracts[ledger[i].contractId].endDate

\* C8: every ledger entry is written by a tick, a tick writes at most one
\* entry for a contract, and a contract has no more entries than ticks that
\* started while it was active.
C8_OneRowPerTick ==
    \A c \in DOMAIN contracts :
        /\ \A i \in EntriesOf(c) : ledger[i].tick # NoTick
        /\ \A i, j \in EntriesOf(c) : ledger[i].tick = ledger[j].tick => i = j
        /\ Cardinality(EntriesOf(c))
              <= Cardinality({t \in 0..clock : contracts[c].startDate <= t /\ t <= contracts[c].endDate})

\* C9: when ten one-second ticks have run for the contract of the Pro plan
\* and left ten entries, every stored amount is non-zero and so is the
\* aggregated balance of the owner.
C9_TenTicksCredit ==
    (/\ clock = TenTicks
     /\ \A r \in 1..MaxRuns : runs[r].pc = "idle"
     /\ Cardinality(EntriesOf(1)) = TenTicks)
        => /\ \A i \in EntriesOf(1) : ledger[i].amount > 0
           /\ getUserTotalEarnings(contracts[1].userId) > 0

\* C10: the entries of a contract, in insertion order, have non-decreasing
\* timestamps, and no amount is negative (the cumulative sum never falls).
C10_Monotonicity ==
    \A i, j \in DOMAIN ledger :
        /\ ledger[i].amount >= 0
        /\ (i < j /\ ledger[i].contractId = ledger[j].contractId) => ledger[i].date <= ledger[j].date

\* C11: a run that has further contracts to process after the current one
\* goes on to them whatever fails for the current one (resolving its plan,
\* reading the price, writing its entry): its step never ends the run.
C11_FailureIsolation ==
    [][ \A r \in 1..MaxRuns :
            (runs[r].pc \in {"plan", "insert"} /\ Len(runs[r].queue) > 1 /\ runs'[r] # runs[r])
                => runs'[r].pc # "idle"
      ]_vars

\* C12: a run never passes from a contract whose plan exists to the next
\* contract without issuing the insert of its entry, whatever the price
\* lookup does, and the usdValue of an issued entry is computed with the
\* stored price or, when there is none, with the fallback rate.
C12_PriceFailureStillCredits ==
    [][ \A r \in 1..MaxRuns :
            (/\ runs[r].pc = "plan"
             /\ getMiningPlan(contracts[Head(runs[r].queue)].planId) # NoSuchPlan
             /\ runs'[r] # runs[r]
             /\ runs'[r] # IdleRun)
                => /\ runs'[r].pc = "insert"
                   /\ runs'[r].queue = runs[r].queue
                   /\ runs'[r].price = (IF btcPrice = NoPrice THEN FallbackBtcPrice ELSE btcPrice)
      ]_vars

\* C13: completed and rejected are terminal: a withdrawal in one of them
\* keeps its status, its transactionHash and its processedAt in every step.
C13_TerminalWithdrawal ==
    [][ \A i \in DOMAIN withdrawals :
            withdrawals[i].status \in {"completed", "rejected"} =>
                /\ i \in DOMAIN withdrawals'
                /\ withdrawals'[i].status = withdrawals[i].status
                /\ withdrawals'[i].transactionHash = withdrawals[i].transactionHash
                /\ withdrawals'[i].processedAt = withdrawals[i].processedAt
      ]_vars

\* C14: a step that changes the ledger appends exactly one entry to it and
\* leaves the earlier entries as they were, and the new entry is written by
\* a tick of the accrual job.
C14_LedgerAppendOnlyByTicks ==
    [][ ledger' # ledger =>
            /\ Len(ledger') = Len(ledger) + 1
            /\ SubSeq(ledger', 1, Len(ledger)) = ledger
            /\ ledger'[Len(ledger')].tick # NoTick
      ]_vars

\* C15: the gate decides on the requested amount converted to BTC at the
\* current rate (rounded up to the next 1e-8 BTC): a request is admitted
\* only if the converted amount is within the balance, and it is refused
\* as insufficient only if the converted amount exceeds the balance.
C15_CommonUnitGate ==
    [][ LET ToBtc(a, c) == IF c = "BTC" THEN a
                           ELSE (a * UsdtPriceUsd + btcPriceUsd - 1) \div btcPriceUsd
        IN  /\ Len(wreqs') > Len(wreqs) =>
                    ToBtc(wreqs'[Len(wreqs')].amount, wreqs'[Len(wreqs')].currency)
                        <= getUserTotalEarnings(wreqs'[Len(wreqs')].userId)
            /\ (response' # response /\ response'.message = "Insufficient balance") =>
                    ToBtc(response'.amount, response'.currency)
                        > getUserTotalEarnings(response'.userId)
      ]_vars

\* C16: at most one run of generateEarningsForAllContracts is in progress.
C16_NoOverlappingTicks == Cardinality(RunsInProgress) <= 1

\* C17: for a user without ledger entries the aggregator returns totalBtc 0
\* and totalUsd 0, no withdrawal request of the user is admitted, and a
\* request of a positive amount whose balance query succeeds is answered
\* 400 "Insufficient balance".
C17_ZeroBalance ==
    [][ \A u \in Users :
            UserLedger(u) = <<>> =>
                /\ getUserTotalEarnings(u) = 0
                /\ getUserTotalEarningsUsd(u) = 0
                /\ ~(Len(wreqs') > Len(wreqs) /\ wreqs'[Len(wreqs')].userId = u)
                /\ (/\ response' # response
                    /\ response'.userId = u
                    /\ response'.amount > 0
                    /\ response'.status # 500)
                        => response'.status = 400 /\ response'.message = "Insufficient balance"
      ]_vars

\* a user without entries has been refused a positive amount while another
\* user has a balance
C17_Witness ==
    /\ UserLedger(response.userId) = <<>>
    /\ response.amount > 0
    /\ response.message = "Insufficient balance"
    /\ \E u \in Users : getUserTotalEarnings(u) > 0

\* C18: once the clock has passed the endDate of a contract, its isActive
\* flag eventually becomes false.
C18_ExpiredBecomesInactive ==
    \A c \in 1..MaxContracts :
        (c \in DOMAIN contracts /\ clock > contracts[c].endDate)
            ~> (c \in DOMAIN contracts /\ ~contracts[c].isActive)

\* C19: whatever failed in the faulty ticks, the timer can fire again in
\* the next second, and every later tick that has returned has written an
\* entry for every contract that was active when it started.
C19_Recovery ==
    /\ (clock < RecoverTicks /\ RunsInProgress # 1..MaxRuns) => ENABLED RecoverTimer
    /\ \A t \in (FaultyTicks + 1)..RecoverTicks :
            TickReturned(t) =>
                \A c \in DOMAIN contracts :
                    (contracts[c].isActive /\ contracts[c].startDate <= t /\ contracts[c].endDate >= t)
                        => \E i \in EntriesOf(c) : ledger[i].tick = t

\* the scenario has run to its end, a faulty tick left a contract without
\* its entry, and the ticks after it wrote theirs
C19_Witness ==
    /\ clock = RecoverTicks
    /\ RunsInProgress = {}
    /\ \E t \in 1..FaultyTicks, c \in DOMAIN contracts : \A i \in EntriesOf(c) : ledger[i].tick # t
    /\ \A t \in (FaultyTicks + 1)..RecoverTicks, c \in DOMAIN contracts :
            \E i \in EntriesOf(c) : ledger[i].tick = t

\* C20: the aggregator's value starts at zero, grows by the amount of every
\* entry appended for the user, by nothing for an entry of another user,
\* and does not change otherwise; the values of all users add up to the
\* sum of the ledger.
C20_AggregatorIsLedgerSum ==
    [][ /\ ledger = <<>> => \A u \in AllUsers : getUserTotalEarnings(u) = 0
        /\ getUserTotalEarnings(AdminId) + getUserTotalEarnings(2) + getUserTotalEarnings(3) = SumAmount(ledger)
        /\ ledger' = ledger => \A u \in AllUsers : getUserTotalEarnings(u)' = getUserTotalEarnings(u)
        /\ (Len(ledger') = Len(ledger) + 1 /\ SubSeq(ledger', 1, Len(ledger)) = ledger) =>
                \A u \in AllUsers :
                    getUserTotalEarnings(u)' = getUserTotalEarnings(u)
                        + (IF ledger'[Len(ledger')].userId = u THEN ledger'[Len(ledger')].amount ELSE 0)
      ]_vars

\* the aggregator is evaluated while a tick that has already written an
\* entry is inserting the next one, and the owner's total is two entries
C20_Witness ==
    \E r \in 1..MaxRuns :
        /\ runs[r].pc = "insert"
        /\ \E i \in DOMAIN ledger : ledger[i].tick = runs[r].start /\ ledger[i].amount > 0
        /\ \E u \in Users : getUserTotalEarnings(u) >= 2
        /\ \E u \in Users : getUserTotalEarnings(u) = 0

C23_AdminOnlyMutation ==
    [][ /\ (/\ response' # response
            /\ response'.route \in {"POST /api/admin/transactions/:id/approve",
                                     "POST /api/admin/transactions/:id/reject",
                                     "POST /api/admin/withdrawals/:id/process"}
            /\ response'.userId # AdminId)
                => /\ response'.status = (IF response'.userId = NoUser THEN 401 ELSE 403)
                   /\ UNCHANGED <<transactions, contracts, ledger, withdrawals>>
        /\ (\E i \in DOMAIN withdrawals : withdrawals'[i] # withdrawals[i])
                => /\ response'.route = "POST /api/admin/withdrawals/:id/process"
                   /\ response'.userId = AdminId
                   /\ response'.status = 200
        /\ (\E i \in DOMAIN transactions : transactions'[i] # transactions[i])
                => /\ response'.route \in {"POST /api/admin/transactions/:id/approve",
                                            "POST /api/admin/transactions/:id/reject"}
                   /\ response'.userId = AdminId
                   /\ response'.status = 200
      ]_vars

\* a user who is not the admin has been refused the processing of a stored
\* pending withdrawal
C23_Witness ==
    /\ response.route = "POST /api/admin/withdrawals/:id/process"
    /\ response.status = 403
    /\ response.amount \in DOMAIN withdrawals
    /\ withdrawals[response.amount].status = "pending"

\* C24: a deposit transaction has at most one mining contract, and exactly
\* one when it is approved and its plan exists.
C24_OneContractPerDeposit ==
    \A t \in DOMAIN transactions :
        LET n == Cardinality({c \in DOMAIN contracts : contracts[c].transactionId = t})
        IN  /\ n <= 1
            /\ (transactions[t].status = "approved" /\ getMiningPlan(transactions[t].planId) # NoSuchPlan)
                    => n = 1

\* C25: an approved or rejected transaction keeps its status in every step,
\* and no contract is created for a rejected transaction.
C25_DepositStatusFinal ==
    [][ \A t \in DOMAIN transactions :
            /\ transactions[t].status \in {"approved", "rejected"}
                    => transactions'[t].status = transactions[t].status
            /\ transactions[t].status = "rejected"
                    => \A c \in DOMAIN contracts' :
                            contracts'[c].transactionId = t => c \in DOMAIN contracts
      ]_vars

Outsider(u, id) == u \in Users /\ u # AdminId /\ (id \in DOMAIN supportTickets => supportTickets[id].userId # u)
TicketIds == 1..(MaxTickets + 1)

C28_ReplyReopensResolved ==
    [][/\ \A k \in 1..MaxPosts :
             ticketReqs[k].pc = "update" /\ ticketReqs'[k].pc = "idle" =>
                LET r == ticketReqs[k] IN
                   /\ \E i \in DOMAIN supportTicketMessages' :
                         /\ supportTicketMessages'[i].ticketId = r.ticketId
                         /\ supportTicketMessages'[i].userId = r.userId
                   /\ IF r.status = "resolved" /\ r.userId # AdminId
                      THEN /\ supportTickets'[r.ticketId].status = "open"
                           /\ \A id \in DOMAIN supportTickets \ {r.ticketId} :
                                 supportTickets'[id] = supportTickets[id]
                      ELSE supportTickets' = supportTickets
       /\ \A id \in DOMAIN supportTickets :
             supportTickets'[id].status # supportTickets[id].status =>
                /\ supportTickets[id].status = "resolved"
                /\ supportTickets'[id].status = "open"
                /\ response'.route = "POST /api/support-tickets/:ticketId/messages"
                /\ response'.status = 201
                /\ response'.amount = id
                /\ response'.userId = supportTickets[id].userId
                /\ response'.userId # AdminId]_vars

\* the owner's reply to a ticket has returned 201 and the ticket is open,
\* while a second reply of the owner that read it as resolved is in flight
C28_Witness ==
    \E k \in 1..MaxPosts :
       /\ ticketReqs[k].pc # "idle"
       /\ ticketReqs[k].status = "resolved"
       /\ supportTickets[ticketReqs[k].ticketId].status = "open"
       /\ response.route = "POST /api/support-tickets/:ticketId/messages"
       /\ response.status = 201
       /\ response.amount = ticketReqs[k].ticketId
       /\ response.userId = supportTickets[response.amount].userId
       /\ response.userId # AdminId

\* C29: a request to GET /api/admin/support-tickets or to PATCH
\* /api/admin/support-tickets/:ticketId with the session of the admin is
\* not answered 403.
C29_AdminReachesTicketHandlers ==
    /\ response.route \in {"GET /api/admin/support-tickets", "PATCH /api/admin/support-tickets/:ticketId"}
    /\ response.userId = AdminId
    => response.status # 403

====
